---------------------------- MODULE Spec2Model ----------------------------
(***************************************************************************)
(* The Ether Ocean radio simulator: the RadioAudio engine (power/fade      *)
(* sequencer, mix engine, station loading), the RadioWhistles synthesizer  *)
(* and the RadioController/RadioUI glue that drives them.                   *)
(*                                                                         *)
(* Two revisions of RadioAudio.updateMixing live in the repository:        *)
(* src/radio-audio.js keeps every ready station playing ("current"), and   *)
(* src/unnamed/part_000 plays only the top 3 ("topK").  The variable        *)
(* revision says which one a behaviour runs; everything else is shared.     *)
(*                                                                         *)
(* Numbers are fixed point.  Volumes and strengths are in 1/VScale,         *)
(* masterVolume in 1/MScale, station and noise gains in 1/One, whistle      *)
(* gains in 1/100000,  Math.exp in 1/1000 from a table in steps of 1/8.     *)
(* Time is counted in whole seconds of the audio clock (currentTime); a     *)
(* fade timer keeps currentTime - startTime, which is all the code reads.   *)
(***************************************************************************)
EXTENDS Integers, Sequences, FiniteSets, TLC

VARIABLES
    revision,            \* "current" (radio-audio.js) or "topK" (part_000)
    ctxState,            \* audioContext: "none" | "suspended" | "running"
    loadPhase,           \* initializeAudio: "fetch" | "station" | "noise" | "done" | "failed"
    loadIdx,             \* the station createStationTracks is awaiting (0: none)
    stationsLoaded,      \* this.stations is the parsed catalog (else [])
    startBtnVisible,     \* the Start button is shown
    isPoweredOn,
    dialPosition,        \* RadioAudio.dialPosition
    uiDialPosition,      \* RadioUI.dialPosition
    masterVolume,
    startupFadeDuration, \* in seconds
    fadeTimers,          \* active setInterval callbacks: elapsed audio time of each, oldest first
    pendingResume,       \* resume().then(...) continuations not yet settled
    stationTracks,       \* ids of the stations that have a track
    isReady,
    isPlaying,
    stationGain,
    noiseTracks,         \* names of the noise beds loaded
    noiseGain,
    whistlesEnabled,
    whistleBusConnected, \* the whistle bus is connected through the limiter to the master bus
    whistleOscillators,  \* ids of the stations that have a whistle voice
    oscStarts,           \* oscillators started and not stopped, for each station id
    whistleGain,
    whistleFreq,
    mixRan,              \* the last handler ran updateMixing past its device guard
    maxConstantNoiseVolume, \* in 1/VScale
    maxEtherNoiseVolume,    \* in 1/VScale
    playPending,         \* ids of the tracks whose audioEl.play() promise is unsettled
    playRequests,        \* play() requests issued for a track since its last start()
    playFailed,          \* the play() request of the track's last start() was rejected
    selIn,               \* a list of station volumes handed to the top-K selector
    selOut,              \* what the selector returned for it
    calcIn,              \* the arguments handed to a pure function of the radio
    calcOut,             \* what the function returned for them
    cabinetEnabled,      \* the ENABLE_* switches of the cabinet effects
    cabinetEdges,        \* the connections made between the nodes of the output graph
    noiseSources         \* buffer sources started and not stopped, for each noise bed

vars == <<revision, ctxState, loadPhase, loadIdx, stationsLoaded, startBtnVisible,
          isPoweredOn, dialPosition, uiDialPosition, masterVolume, startupFadeDuration,
          fadeTimers, pendingResume, stationTracks, isReady, isPlaying,
          stationGain, noiseTracks, noiseGain, whistlesEnabled,
          whistleBusConnected, whistleOscillators,
          oscStarts, whistleGain, whistleFreq, mixRan, maxConstantNoiseVolume, maxEtherNoiseVolume,
          playPending, playRequests, playFailed, selIn, selOut,
          calcIn, calcOut, cabinetEnabled, cabinetEdges, noiseSources>>

---------------------------------------------------------------------------
(* Bounds and scales *)

MaxTimers == 2          \* fade intervals alive at once
MaxPending == 2         \* unsettled resume() continuations
VScale == 100
MScale == 4
TopK == 3
DefaultFadeSeconds == 2
DefaultDial == 90

One == VScale * VScale * VScale * MScale

(* The default fade duration in seconds of the audio clock (currentTime);    *)
(* elapsed time is counted in whole seconds up to TimeCap, past which the    *)
(* progress of a fade no longer changes.                                     *)
FadeTicks == DefaultFadeSeconds
TimeCap == FadeTicks

Min(a, b) == IF a < b THEN a ELSE b
Max(a, b) == IF a > b THEN a ELSE b
Abs(x) == IF x < 0 THEN -x ELSE x

(* The station catalog (stations.yaml): position in dial units, strength in *)
(* 1/VScale, sigma in dial units.                                           *)
Catalog ==
    << [position |-> 40, strength |-> 80, sigma |-> 3],
       [position |-> 42, strength |-> 80, sigma |-> 3],
       [position |-> 44, strength |-> 60, sigma |-> 3],
       [position |-> 46, strength |-> 90, sigma |-> 2] >>

NumStations == Len(Catalog)
StationIds == 1..NumStations

(* The dial positions the UI delivers. *)
DialPositions == {44, 90}

Revisions == {"current", "topK"}

NoiseBeds(rev) ==
    IF rev = "current" THEN {"constantNoise", "etherNoise"}
    ELSE {"constantNoise", "etherNoiseBaseline", "etherNoiseAMStatic"}

AllNoiseBeds == NoiseBeds("current") \cup NoiseBeds("topK")

---------------------------------------------------------------------------
(* Math.exp(-n/d), in 1/1000, the argument rounded down to a multiple of 1/8 *)

ExpTable ==
    << 1000, 882, 779, 687, 607, 535, 472, 417, 368, 325, 287, 253, 223, 197, 174,
       153, 135, 119, 105, 93, 82, 72, 64, 56, 50, 44, 39, 34, 30, 27, 24, 21, 18,
       16, 14, 13, 11, 10, 9, 8, 7, 6, 5, 5, 4, 4, 3, 3, 2, 2, 2, 2, 2, 1, 1, 1, 1 >>

ExpNeg(n, d) ==
    LET k == (n * 8) \div d
    IN  IF k + 1 > Len(ExpTable) THEN 0 ELSE ExpTable[k + 1]

Isqrt(x) == CHOOSE r \in 0..1000 : r * r <= x /\ (r + 1) * (r + 1) > x

calculateStationVolume_SignLost(station, dial) ==
    LET distance == Abs(dial - station.position)
        grow == Max(1, ExpNeg(distance * distance, 2 * station.sigma * station.sigma))
    IN  Max(0, Min(VScale, (station.strength * 1000) \div grow))

(* calculateStationVolume(station, dialPosition), in 1/VScale *)
calculateStationVolume(station, dial) ==
    LET distance == Abs(dial - station.position)
        sigma == station.sigma
        strength == station.strength
        volume == (strength * ExpNeg(distance * distance, 2 * sigma * sigma)) \div 1000
    IN  Max(0, Min(VScale, volume))

(* Array.prototype.sort((a, b) => b.key - a.key): stable, highest key first *)
RECURSIVE InsertDesc(_, _)
InsertDesc(x, s) ==
    IF s = <<>> THEN <<x>>
    ELSE IF Head(s).key >= x.key THEN <<Head(s)>> \o InsertDesc(x, Tail(s))
    ELSE <<x>> \o s

RECURSIVE SortDesc(_)
SortDesc(s) ==
    IF s = <<>> THEN <<>>
    ELSE InsertDesc(s[Len(s)], SortDesc(SubSeq(s, 1, Len(s) - 1)))

Slice(s, k) == SubSeq(s, 1, Min(k, Len(s)))

Range(s) == {s[i] : i \in 1..Len(s)}

RECURSIVE SumKeys(_)
SumKeys(s) == IF s = <<>> THEN 0 ELSE Head(s).key + SumKeys(Tail(s))

RECURSIVE MaxKey(_)
MaxKey(s) == IF s = <<>> THEN 0 ELSE Max(Head(s).key, MaxKey(Tail(s)))

---------------------------------------------------------------------------
(* Configuration *)

(* The constructor's values of maxConstantNoiseVolume and maxEtherNoiseVolume *)
DefaultMaxConstantNoiseVolume == VScale
DefaultMaxEtherNoiseVolume(rev) == IF rev = "current" THEN 20 ELSE 30
etherBaselineVolume == 30
etherAMStaticVolume == 80

whistleScaleHzPerUnit == 1000
whistleEdgeWidth == 2
whistleMaxGain == 3000
whistleCenterDeadband == 1
whistleMaxSimultaneous == 3
whistleGlobalCeiling == 15000
whistleMaxSafeFreq == 8000
MaxOscFreq == 22050

(* this.stations *)
stations == IF stationsLoaded THEN Catalog ELSE <<>>

(* new GainNode: gain.value defaults to 1 *)
DefaultGain == One

---------------------------------------------------------------------------
(* The fields of RadioAudio and RadioWhistles a handler reads and writes,   *)
(* as one record, so that the calls of a handler compose in order.          *)

Self ==
    [ dialPosition |-> dialPosition,
      masterVolume |-> masterVolume,
      isPlaying |-> isPlaying,
      stationGain |-> stationGain,
      noiseGain |-> noiseGain,
      whistleOscillators |-> whistleOscillators,
      oscStarts |-> oscStarts,
      whistleGain |-> whistleGain,
      whistleFreq |-> whistleFreq,
      fadeTimers |-> fadeTimers,
      maxConstantNoiseVolume |-> maxConstantNoiseVolume,
      maxEtherNoiseVolume |-> maxEtherNoiseVolume,
      mixRan |-> FALSE ]

Commit(a) ==
    /\ dialPosition' = a.dialPosition
    /\ masterVolume' = a.masterVolume
    /\ isPlaying' = a.isPlaying
    /\ stationGain' = a.stationGain
    /\ noiseGain' = a.noiseGain
    /\ whistleOscillators' = a.whistleOscillators
    /\ oscStarts' = a.oscStarts
    /\ whistleGain' = a.whistleGain
    /\ whistleFreq' = a.whistleFreq
    /\ fadeTimers' = a.fadeTimers
    /\ mixRan' = a.mixRan

---------------------------------------------------------------------------
(* RadioWhistles *)

(* The whistleBus exists once initialize() ran with an audio context. *)
whistleBus == ctxState # "none"

(* _ensureWhistleForStation: the ids for which a voice is created, those     *)
(* that whistleOscillators does not hold yet                                 *)
FreshVoices_NoHasCheck(ids, voices) == ids
FreshVoices(ids, voices) == ids \ voices

(* _ensureWhistleForStation for every station of the list; a voice that is  *)
(* created has its oscillator started and replaces the map's entry          *)
startWhistleOscillators(a) ==
    IF ~whistlesEnabled \/ ~whistleBus THEN a
    ELSE LET ids == {i \in StationIds : i <= Len(stations)}
             fresh == FreshVoices(ids, a.whistleOscillators)
         IN  [a EXCEPT !.whistleOscillators = @ \cup ids,
                       !.oscStarts = [i \in StationIds |-> IF i \in fresh THEN @[i] + 1 ELSE @[i]],
                       !.whistleGain = [i \in StationIds |-> IF i \in fresh THEN 0 ELSE @[i]],
                       !.whistleFreq = [i \in StationIds |-> IF i \in fresh THEN 0 ELSE @[i]]]

stopWhistleOscillators(a) ==
    IF ~whistleBus THEN a
    ELSE [a EXCEPT !.whistleGain =
              [i \in StationIds |-> IF i \in a.whistleOscillators THEN 0 ELSE @[i]]]

StationWhistleOf_NoDeadband(list, i, dial) ==
    LET station == list[i]
        offset == Abs(dial - station.position)
        proximity == ExpNeg(offset * offset, 2 * whistleEdgeWidth * whistleEdgeWidth)
        atEdge == (whistleMaxGain * proximity) \div 1000
    IN  [id |-> i, frequency |-> Min(offset * whistleScaleHzPerUnit, whistleMaxSafeFreq),
         key |-> (atEdge * station.strength) \div VScale]

(* gainReduction left at 1 whatever the frequency *)
GainReduction_None(raw) == 1000

(* gainReduction, in 1/1000: Math.sqrt(maxSafeFreq / frequency) when the raw *)
(* frequency is above maxSafeFreq, 1 otherwise                               *)
GainReduction(raw) ==
    IF raw > whistleMaxSafeFreq
    THEN Isqrt(((1000 * whistleMaxSafeFreq) \div raw) * 1000)
    ELSE 1000

(* One entry of stationWhistles for station i of a station list: frequency  *)
(* in Hz, key = gain in 1/100000                                            *)
StationWhistleOf(list, i, dial) ==
    LET station == list[i]
        offset == Abs(dial - station.position)
        raw == offset * whistleScaleHzPerUnit
        frequency == Min(raw, whistleMaxSafeFreq)
        gainReduction == GainReduction(raw)
        proximity == ExpNeg(offset * offset, 2 * whistleEdgeWidth * whistleEdgeWidth)
        atEdge == (whistleMaxGain * proximity) \div 1000
        reduced == (atEdge * gainReduction) \div 1000
        gain == (reduced * station.strength) \div VScale
    IN  IF offset < whistleCenterDeadband
        THEN [id |-> i, frequency |-> 0, key |-> 0]
        ELSE [id |-> i, frequency |-> frequency,
              key |-> IF frequency > 0 THEN gain ELSE 0]

StationWhistle(i, dial) == StationWhistleOf(stations, i, dial)

(* scaledGain = whistle.gain * scaleFactor; scaleFactor is 1 unless the sum *)
(* of the kept gains is above the ceiling                                   *)
ScaledGain_Unscaled(gain, totalGain) == gain
ScaledGain(gain, totalGain) ==
    IF totalGain > whistleGlobalCeiling
    THEN (gain * whistleGlobalCeiling) \div totalGain
    ELSE gain

(* The whistles with the slice left out: every station's whistle is kept *)
SelectedWhistlesOf_KeepAll(list, dial) ==
    LET stationWhistles == [i \in 1..Len(list) |-> StationWhistleOf(list, i, dial)]
        selected == SortDesc(stationWhistles)
        totalGain == SumKeys(selected)
    IN  [k \in 1..Len(selected) |->
            [selected[k] EXCEPT !.key = ScaledGain(@, totalGain)]]

(* The whistles updateWhistlesForDial keeps, their gains scaled to the ceiling *)
SelectedWhistlesOf(list, dial) ==
    LET stationWhistles == [i \in 1..Len(list) |-> StationWhistleOf(list, i, dial)]
        selected == Slice(SortDesc(stationWhistles), whistleMaxSimultaneous)
        totalGain == SumKeys(selected)
    IN  [k \in 1..Len(selected) |->
            [selected[k] EXCEPT !.key = ScaledGain(@, totalGain)]]

SelectedWhistles(dial) == SelectedWhistlesOf(stations, dial)

(* What updateWhistlesForDial hands to _applyWhistleAutomation for each      *)
(* station of the list: the kept whistle's frequency, clamped to the         *)
(* oscillator's range, and scaled gain, or 0 and 0 for one that is not kept  *)
WhistleTargetsOf(list, dial) ==
    LET sel == SelectedWhistlesOf(list, dial)
        selectedIds == {sel[k].id : k \in 1..Len(sel)}
        Of(i) == CHOOSE w \in Range(sel) : w.id = i
    IN  [i \in 1..Len(list) |->
            IF i \in selectedIds
            THEN [selected |-> TRUE,
                  frequency |-> Max(0, Min(Of(i).frequency, MaxOscFreq)),
                  gain |-> Of(i).key]
            ELSE [selected |-> FALSE, frequency |-> 0, gain |-> 0]]

(* updateWhistlesForDial; _applyWhistleAutomation returns early for an id    *)
(* that has no voice, and clamps the frequency to [0, 22050]                 *)
updateWhistlesForDial(a, dial, powered) ==
    IF ~whistlesEnabled \/ ~whistleBus \/ ~powered THEN a
    ELSE LET target == WhistleTargetsOf(stations, dial)
         IN  [a EXCEPT
                !.whistleGain = [i \in StationIds |->
                    IF i \notin a.whistleOscillators THEN @[i]
                    ELSE IF i <= Len(stations) THEN target[i].gain ELSE 0],
                !.whistleFreq = [i \in StationIds |->
                    IF i \notin a.whistleOscillators THEN @[i]
                    ELSE IF i <= Len(stations) THEN target[i].frequency ELSE 0]]

---------------------------------------------------------------------------
(* RadioAudio: the mix engine *)

(* stationVolumes of updateMixing: one entry per station that has a track *)
RECURSIVE StationVolumesFrom(_, _)
StationVolumesFrom(i, dial) ==
    IF i > Len(stations) THEN <<>>
    ELSE (IF i \in stationTracks
          THEN <<[id |-> i, key |-> calculateStationVolume(stations[i], dial)]>>
          ELSE <<>>) \o StationVolumesFrom(i + 1, dial)

StationVolumes(dial) == StationVolumesFrom(1, dial)

(* The selector with the sort left out: the first three of the catalog *)
SelectTopK_Unsorted(vols) == Slice(vols, TopK)

(* The top-K selector of part_000: sort by volume, slice(0, 3) *)
SelectTopK(vols) == Slice(SortDesc(vols), TopK)

VolumeOf(vols, i) == (CHOOSE v \in Range(vols) : v.id = i).key

(* updateMixing starting a selected track without looking at isReady *)
PlayingAfterMix_NoReadyCheck(rev, i, playing, ready, inVolumes, isTopK) ==
    IF ~inVolumes THEN playing
    ELSE IF rev = "current" THEN TRUE
    ELSE (IF isTopK THEN TRUE ELSE IF ready THEN FALSE ELSE playing)

(* updateMixing muting, but not stopping, a station that left the top K *)
PlayingAfterMix_NoStop(rev, i, playing, ready, inVolumes, isTopK) ==
    IF ~inVolumes THEN playing
    ELSE IF ready /\ (rev = "current" \/ isTopK) THEN TRUE ELSE playing

(* track.start() / track.stop() decided by updateMixing for station i *)
PlayingAfterMix(rev, i, playing, ready, inVolumes, isTopK) ==
    IF ~inVolumes THEN playing
    ELSE IF rev = "current"
         THEN (IF ready /\ ~playing THEN TRUE ELSE playing)
         ELSE (IF ready
               THEN (IF isTopK /\ ~playing THEN TRUE
                     ELSE IF ~isTopK /\ playing THEN FALSE
                     ELSE playing)
               ELSE playing)

(* scaledVolume without the master volume: the station's own volume *)
ScaledVolume_NoMaster(rev, volume, mv, isTopK) ==
    IF rev = "current" \/ isTopK THEN volume * MScale * VScale * VScale ELSE 0

(* scaledVolume of updateMixing, in 1/One *)
ScaledVolume(rev, volume, mv, isTopK) ==
    IF rev = "current" \/ isTopK THEN volume * mv * VScale * VScale ELSE 0

(* etherVolume rising with the station volume instead of falling *)
EtherVolume_NotInverted(maxEther, maxStationVolume, mv) ==
    maxEther * maxStationVolume * mv

(* etherVolume of updateMixing, in 1/(VScale * VScale * MScale) *)
EtherVolume(maxEther, maxStationVolume, mv) ==
    maxEther * (VScale - maxStationVolume) * mv

EtherBedGain(rev, bed, etherVolume) ==
    IF bed = "etherNoise" THEN etherVolume * VScale
    ELSE IF bed = "etherNoiseBaseline" THEN etherVolume * etherBaselineVolume
    ELSE etherVolume * etherAMStaticVolume

(* The constant noise gain as setMaxConstantNoiseVolume assigns it: the     *)
(* limit itself, without the master volume                                  *)
ConstantNoiseGain_NoMaster(maxConstant, mv) == maxConstant * MScale * VScale * VScale

(* The constant noise gain of updateMixing, in 1/One *)
ConstantNoiseGain(maxConstant, mv) == maxConstant * mv * VScale * VScale

(* The guard left out: updateMixing runs whatever the state of the context *)
ContextRunning_Ignored == TRUE

(* The device guard of updateMixing: an audio context exists and is running *)
ContextRunning == ctxState = "running"

updateMixing(a, dial, powered) ==
    IF ~ContextRunning THEN a
    ELSE LET vols == SortDesc(StationVolumes(dial))
             ids == {vols[k].id : k \in 1..Len(vols)}
             topK == SelectTopK(vols)
             topKIds == {topK[k].id : k \in 1..Len(topK)}
             maxStationVolume == IF revision = "current" THEN MaxKey(vols) ELSE MaxKey(topK)
             etherVolume == EtherVolume(a.maxEtherNoiseVolume, maxStationVolume, a.masterVolume)
             b == [a EXCEPT
                     !.dialPosition = dial,
                     !.mixRan = TRUE,
                     !.isPlaying = [i \in StationIds |->
                         PlayingAfterMix(revision, i, a.isPlaying[i], isReady[i],
                                         i \in ids, i \in topKIds)],
                     !.stationGain = [i \in StationIds |->
                         IF i \in ids
                         THEN ScaledVolume(revision, VolumeOf(vols, i), a.masterVolume,
                                           i \in topKIds)
                         ELSE a.stationGain[i]],
                     !.noiseGain = [bed \in AllNoiseBeds |->
                         IF bed \notin noiseTracks THEN a.noiseGain[bed]
                         ELSE IF bed = "constantNoise" THEN ConstantNoiseGain(a.maxConstantNoiseVolume,
                                                                        a.masterVolume)
                         ELSE EtherBedGain(revision, bed, etherVolume)]]
         IN  updateWhistlesForDial(b, dial, powered)

---------------------------------------------------------------------------
(* RadioAudio: the power/fade sequencer *)

(* fadeInMasterVolume: masterVolume = 0 and a new interval whose startTime is now *)
fadeInMasterVolume(a) ==
    [a EXCEPT !.masterVolume = 0,
              !.fadeTimers = Append(@, 0)]

(* _startTracksAfterResume: noise beds started at gain 0, whistle voices, the fade *)
StartTracksAfterResume(a) ==
    LET b == [a EXCEPT !.noiseGain =
                 [bed \in AllNoiseBeds |-> IF bed \in noiseTracks THEN 0 ELSE @[bed]]]
    IN  fadeInMasterVolume(startWhistleOscillators(b))

(* stopAllTracks, reached with this.isPoweredOn = powered *)
stopAllTracks(a, powered) ==
    IF ctxState = "none" \/ ~powered THEN a
    ELSE stopWhistleOscillators(
            [a EXCEPT
                !.isPlaying = [i \in StationIds |-> IF i \in stationTracks THEN FALSE ELSE @[i]],
                !.stationGain = [i \in StationIds |-> IF i \in stationTracks THEN 0 ELSE @[i]],
                !.noiseGain = [bed \in AllNoiseBeds |->
                                  IF bed \in noiseTracks THEN 0 ELSE @[bed]]])

(* onDialPositionChange, reached with this.isPoweredOn = powered *)
onDialPositionChange(a, dial, powered) ==
    IF powered THEN updateMixing(a, dial, powered) ELSE a

(* progress of the interval callback, in 1/MScale *)
FadeProgress(elapsed, duration) == Min((elapsed * MScale) \div duration, MScale)

(* clearInterval left out: the interval stays alive after progress reached 1 *)
RemoveAt_Keep(s, i) == s

RemoveAt(s, i) == SubSeq(s, 1, i - 1) \o SubSeq(s, i + 1, Len(s))

LoaderVars == <<loadPhase, loadIdx, stationsLoaded, stationTracks, isReady, noiseTracks>>
CalcVars == <<calcIn, calcOut>>
CabinetVars == <<cabinetEnabled, cabinetEdges>>
TrackVars == <<playPending, playRequests, playFailed>>
ConfigVars == <<revision, startupFadeDuration, whistlesEnabled, whistleBusConnected,
                maxConstantNoiseVolume, maxEtherNoiseVolume, TrackVars,
                CabinetVars, noiseSources, selIn, selOut, CalcVars>>

---------------------------------------------------------------------------
(* RadioCabinet: the effect chain between the master bus and the destination *)

Effects == {"highpass", "lowpass", "reverb", "tube", "cabinet"}

(* this.nodes: the nodes disconnect() goes through.  The master bus and the *)
(* reverbMix gain that connect() creates are not among them.                *)
CabinetNodes ==
    {"highpass", "lowpass", "convolver", "reverbWet", "reverbDry", "tubeSaturator",
     "speakerDistortion", "cabinetResonator"}

(* disconnect(): node.disconnect() for every node of this.nodes *)
disconnect(edges) == {e \in edges : e[1] \notin CabinetNodes}

(* connect(inputNode, outputNode) with the master bus and the destination.  *)
(* Each step is <<connections, currentNode>>.  With the reverb enabled a    *)
(* new reverbMix node is created, so the connections of the one before,     *)
(* which nothing feeds any more, are left out.                              *)
connect(edges, en) ==
    LET Link(step, on, node) ==
            IF on THEN <<step[1] \cup {<<step[2], node>>}, node>> ELSE step
        s0 == <<edges, "masterBus">>
        s1 == Link(s0, en["highpass"], "highpass")
        s2 == Link(s1, en["lowpass"], "lowpass")
        s3 == IF en["reverb"]
              THEN <<{e \in s2[1] : e[1] # "reverbMix"}
                        \cup {<<s2[2], "reverbDry">>, <<s2[2], "convolver">>,
                              <<"convolver", "reverbWet">>, <<"reverbDry", "reverbMix">>,
                              <<"reverbWet", "reverbMix">>},
                     "reverbMix">>
              ELSE s2
        s4 == Link(s3, en["tube"], "tubeSaturator")
        s5 == Link(s4, TRUE, "speakerDistortion")
        s6 == Link(s5, en["cabinet"], "cabinetResonator")
    IN  s6[1] \cup {<<s6[2], "destination">>}

(* reconnect(): disconnect(), then connect(currentInput, currentOutput) *)
reconnect(edges, en) == connect(disconnect(edges), en)

(* The module's ENABLE_* defaults, and the graph initializeAudio builds with *)
(* cabinet.connect(masterBus, destination) once it has an audio context     *)
CabinetInit ==
    /\ cabinetEnabled = [e \in Effects |-> TRUE]
    /\ cabinetEdges = IF ctxState = "none" THEN {}
                      ELSE connect({}, [e \in Effects |-> TRUE])

---------------------------------------------------------------------------
(* Initial state: RadioController constructed, initializeAudio at its first await *)

InitCore ==
    /\ revision \in Revisions
    /\ ctxState \in {"none", "suspended", "running"}
    /\ loadPhase = IF ctxState = "none" THEN "failed" ELSE "fetch"
    /\ loadIdx = 0
    /\ stationsLoaded = FALSE
    /\ startBtnVisible = FALSE
    /\ isPoweredOn = FALSE
    /\ dialPosition = DefaultDial
    /\ uiDialPosition = DefaultDial
    /\ masterVolume = 0
    /\ startupFadeDuration = FadeTicks
    /\ fadeTimers = <<>>
    /\ pendingResume = 0
    /\ stationTracks = {}
    /\ isReady = [i \in StationIds |-> FALSE]
    /\ isPlaying = [i \in StationIds |-> FALSE]
    /\ stationGain = [i \in StationIds |-> DefaultGain]
    /\ noiseTracks = {}
    /\ noiseGain = [bed \in AllNoiseBeds |-> DefaultGain]
    /\ whistlesEnabled = TRUE
    /\ whistleBusConnected = (ctxState # "none")
    /\ maxConstantNoiseVolume = DefaultMaxConstantNoiseVolume
    /\ maxEtherNoiseVolume = DefaultMaxEtherNoiseVolume(revision)
    /\ playPending = {}
    /\ playRequests = [i \in StationIds |-> 0]
    /\ playFailed = [i \in StationIds |-> FALSE]
    /\ whistleOscillators = {}
    /\ oscStarts = [i \in StationIds |-> 0]
    /\ whistleGain = [i \in StationIds |-> 0]
    /\ whistleFreq = [i \in StationIds |-> 0]
    /\ mixRan = FALSE

Init ==
    /\ InitCore
    /\ selIn = <<>>
    /\ CabinetInit
    /\ noiseSources = [bed \in AllNoiseBeds |-> 0]
    /\ selOut = <<>>
    /\ calcIn = <<>>
    /\ calcOut = <<>>

---------------------------------------------------------------------------
(* initializeAudio: loadStations, createStationTracks, loadNoiseTracks *)

AudioUnchanged ==
    UNCHANGED <<isPoweredOn, dialPosition, uiDialPosition, masterVolume, fadeTimers,
                pendingResume, isPlaying, stationGain, noiseGain,
                whistleOscillators, oscStarts, whistleGain, whistleFreq, ctxState>>

(* stations.yaml fetched and parsed; createStationTracks creates the first track *)
StationsFetched ==
    /\ loadPhase = "fetch"
    /\ stationsLoaded' = TRUE
    /\ stationTracks' = {1}
    /\ loadIdx' = 1
    /\ loadPhase' = "station"
    /\ mixRan' = FALSE
    /\ AudioUnchanged
    /\ UNCHANGED <<isReady, noiseTracks, startBtnVisible, ConfigVars>>

StationsFetchFailed ==
    /\ loadPhase = "fetch"
    /\ loadPhase' = "noise"
    /\ mixRan' = FALSE
    /\ AudioUnchanged
    /\ UNCHANGED <<stationsLoaded, stationTracks, loadIdx, isReady, noiseTracks,
                   startBtnVisible, ConfigVars>>

(* The awaited track is marked ready; the loop creates the next track or ends *)
NextStation ==
    /\ isReady' = [isReady EXCEPT ![loadIdx] = TRUE]
    /\ IF loadIdx < NumStations
       THEN /\ stationTracks' = stationTracks \cup {loadIdx + 1}
            /\ loadIdx' = loadIdx + 1
            /\ loadPhase' = "station"
       ELSE /\ stationTracks' = stationTracks
            /\ loadIdx' = 0
            /\ loadPhase' = "noise"
    /\ mixRan' = FALSE
    /\ AudioUnchanged
    /\ UNCHANGED <<stationsLoaded, noiseTracks, startBtnVisible, ConfigVars>>

(* waitForReady resolves: onReady sets isReady *)
TrackReady ==
    /\ loadPhase = "station"
    /\ NextStation

(* The catch block of the race not marking the track ready *)
TrackTimeout_NotForced ==
    /\ loadPhase = "station"
    /\ IF loadIdx < NumStations
       THEN /\ stationTracks' = stationTracks \cup {loadIdx + 1}
            /\ loadIdx' = loadIdx + 1
            /\ loadPhase' = "station"
       ELSE /\ stationTracks' = stationTracks
            /\ loadIdx' = 0
            /\ loadPhase' = "noise"
    /\ mixRan' = FALSE
    /\ AudioUnchanged
    /\ UNCHANGED <<isReady, stationsLoaded, noiseTracks, startBtnVisible, ConfigVars>>

(* the 5 s timeout wins the race: the catch block forces isReady *)
TrackTimeout ==
    /\ loadPhase = "station"
    /\ NextStation

NoiseOutcomes(rev) == {{}, NoiseBeds(rev)}

(* loadNoiseTracks, then the initialization callback shows the Start button *)
LoadNoiseTracks ==
    /\ loadPhase = "noise"
    /\ \E loaded \in NoiseOutcomes(revision) :
          /\ noiseTracks' = loaded
          /\ noiseGain' = [bed \in AllNoiseBeds |->
                IF bed = "constantNoise" /\ bed \in loaded
                THEN maxConstantNoiseVolume * VScale * VScale * MScale
                ELSE DefaultGain]
    /\ loadPhase' = "done"
    /\ startBtnVisible' = TRUE
    /\ mixRan' = FALSE
    /\ UNCHANGED <<isPoweredOn, dialPosition, uiDialPosition, masterVolume, fadeTimers,
                   pendingResume, isPlaying, stationGain,
                   whistleOscillators, oscStarts, whistleGain, whistleFreq, ctxState,
                   stationsLoaded, stationTracks, loadIdx, isReady, ConfigVars>>

(* radio-main.js: the 10 s emergency fallback forces the Start button to appear *)
EmergencyFallback ==
    /\ ~startBtnVisible
    /\ startBtnVisible' = TRUE
    /\ mixRan' = FALSE
    /\ AudioUnchanged
    /\ UNCHANGED <<LoaderVars, ConfigVars>>

---------------------------------------------------------------------------
(* The handlers *)

(* togglePower, turning on: startAllTracks.  With the context suspended it   *)
(* only requests resume(); with the context running it starts the tracks.    *)
StartAllTracks(a) ==
    IF ctxState = "running" THEN StartTracksAfterResume(a) ELSE a

(* radio-main.js, the Start button's click handler: togglePower(), and when  *)
(* the power is now on, onDialPositionChange(ui.getDialPosition())           *)
StartButtonClick ==
    /\ startBtnVisible
    /\ IF ~isPoweredOn
       THEN /\ ctxState = "running" => Len(fadeTimers) < MaxTimers
            /\ ctxState = "suspended" => pendingResume < MaxPending
            /\ pendingResume' = IF ctxState = "suspended"
                                THEN pendingResume + 1 ELSE pendingResume
            /\ isPoweredOn' = TRUE
            /\ Commit(onDialPositionChange(StartAllTracks(Self), uiDialPosition, TRUE))
       ELSE /\ pendingResume' = pendingResume
            /\ isPoweredOn' = FALSE
            /\ Commit(stopAllTracks(Self, FALSE))
    /\ UNCHANGED <<ctxState, uiDialPosition, startBtnVisible, LoaderVars, ConfigVars>>

(* radio-ui.js rotateDial: the UI commits the position, then the callback    *)
(* calls onDialPositionChange                                                 *)
RotateDial ==
    \E p \in DialPositions :
        /\ uiDialPosition' = p
        /\ Commit(onDialPositionChange(Self, p, isPoweredOn))
            /\ UNCHANGED <<ctxState, isPoweredOn, pendingResume, startBtnVisible,
                       LoaderVars, ConfigVars>>

(* The setInterval callback of fadeInMasterVolume, for the i-th live interval *)
FadeStep(a, i) ==
    IF ctxState # "running" THEN a
    ELSE LET progress == FadeProgress(a.fadeTimers[i], startupFadeDuration)
             b == updateMixing([a EXCEPT !.masterVolume = progress],
                               a.dialPosition, isPoweredOn)
         IN  IF progress >= MScale
             THEN [b EXCEPT !.fadeTimers = RemoveAt(@, i)]
             ELSE b

FadeTick ==
    \E i \in 1..Len(fadeTimers) :
        /\ Commit(FadeStep(Self, i))
            /\ UNCHANGED <<ctxState, isPoweredOn, uiDialPosition, pendingResume,
                       startBtnVisible, LoaderVars, ConfigVars>>

(* audioContext.resume() settles: the context runs and the continuation      *)
(* calls _startTracksAfterResume                                              *)
ResumeResolved ==
    /\ pendingResume > 0
    /\ Len(fadeTimers) < MaxTimers
    /\ pendingResume' = pendingResume - 1
    /\ ctxState' = "running"
    /\ Commit(StartTracksAfterResume(Self))
    /\ UNCHANGED <<isPoweredOn, uiDialPosition, startBtnVisible, LoaderVars, ConfigVars>>

(* audioContext.resume() rejects: the catch handler only logs *)
ResumeRejected ==
    /\ pendingResume > 0
    /\ ctxState = "suspended"
    /\ pendingResume' = pendingResume - 1
    /\ Commit(Self)
    /\ UNCHANGED <<ctxState, isPoweredOn, uiDialPosition, startBtnVisible,
                   LoaderVars, ConfigVars>>

---------------------------------------------------------------------------
(* The environment *)

(* The audio clock advances while the context runs *)
AdvanceTime ==
    /\ ctxState = "running"
    /\ \E i \in 1..Len(fadeTimers) : fadeTimers[i] < TimeCap
    /\ fadeTimers' = [i \in 1..Len(fadeTimers) |-> Min(fadeTimers[i] + 1, TimeCap)]
    /\ UNCHANGED <<ctxState, isPoweredOn, dialPosition, uiDialPosition, masterVolume,
                   pendingResume, isPlaying, stationGain, noiseGain, whistleOscillators, oscStarts,
                   
                   whistleGain, whistleFreq, startBtnVisible, mixRan,
                   LoaderVars, ConfigVars>>

(* The browser suspends a running context (interruption, backgrounding) *)
ContextInterrupted ==
    /\ ctxState = "running"
    /\ ctxState' = "suspended"
    /\ UNCHANGED <<isPoweredOn, dialPosition, uiDialPosition, masterVolume, fadeTimers,
                   pendingResume, isPlaying, stationGain, noiseGain,
                   whistleOscillators, oscStarts, whistleGain, whistleFreq, startBtnVisible,
                   mixRan, LoaderVars, ConfigVars>>

---------------------------------------------------------------------------

Next ==
    \/ StationsFetched
    \/ StationsFetchFailed
    \/ TrackReady
    \/ TrackTimeout
    \/ LoadNoiseTracks
    \/ EmergencyFallback
    \/ StartButtonClick
    \/ RotateDial
    \/ FadeTick
    \/ ResumeResolved
    \/ ResumeRejected
    \/ AdvanceTime
    \/ ContextInterrupted

Spec == Init /\ [][Next]_vars

---------------------------------------------------------------------------
(* The top-K selector of part_000 on its own: any list of station volumes *)

MaxListLen == 4
SelVolumes == {0, 5, 10, 30, 80}

RECURSIVE SeqsUpTo(_, _)
SeqsUpTo(S, n) ==
    IF n = 0 THEN {<<>>}
    ELSE LET shorter == SeqsUpTo(S, n - 1)
         IN  shorter \cup {Append(q, x) : q \in {r \in shorter : Len(r) = n - 1}, x \in S}

SelInit ==
    /\ InitCore
    /\ revision = "topK"
    /\ ctxState = "running"
    /\ selIn \in SeqsUpTo(SelVolumes, MaxListLen)
    /\ CabinetInit
    /\ noiseSources = [bed \in AllNoiseBeds |-> 0]
    /\ selOut = <<>>
    /\ calcIn = <<>>
    /\ calcOut = <<>>

SelectStep ==
    /\ selIn # <<>>
    /\ selOut = <<>>
    /\ selOut' = SelectTopK([i \in 1..Len(selIn) |-> [id |-> i, key |-> selIn[i]]])
    /\ UNCHANGED <<revision, ctxState, loadPhase, loadIdx, stationsLoaded, startBtnVisible,
                   isPoweredOn, dialPosition, uiDialPosition, masterVolume,
                   startupFadeDuration, fadeTimers, pendingResume, stationTracks, isReady,
                   isPlaying, stationGain, noiseTracks, noiseGain, whistlesEnabled,
                   whistleBusConnected,
                   whistleOscillators, oscStarts, whistleGain, whistleFreq, mixRan,
                   maxConstantNoiseVolume, maxEtherNoiseVolume, TrackVars,
                   CabinetVars, noiseSources, selIn, CalcVars>>

SpecSelect == SelInit /\ [][SelectStep]_vars

---------------------------------------------------------------------------
(* The configuration setters, called on a radio whose initializeAudio has   *)
(* completed: every station has a ready track, the noise beds are loaded.   *)

ConfigVolumes == {0, 50, 150}

ConfigInit ==
    /\ revision \in Revisions
    /\ ctxState \in {"suspended", "running"}
    /\ loadPhase = "done"
    /\ loadIdx = 0
    /\ stationsLoaded = TRUE
    /\ startBtnVisible = TRUE
    /\ isPoweredOn = FALSE
    /\ dialPosition = DefaultDial
    /\ uiDialPosition = DefaultDial
    /\ masterVolume = 0
    /\ startupFadeDuration = FadeTicks
    /\ fadeTimers = <<>>
    /\ pendingResume = 0
    /\ stationTracks = StationIds
    /\ isReady = [i \in StationIds |-> TRUE]
    /\ isPlaying = [i \in StationIds |-> FALSE]
    /\ stationGain = [i \in StationIds |-> DefaultGain]
    /\ noiseTracks = NoiseBeds(revision)
    /\ noiseGain = [bed \in AllNoiseBeds |-> DefaultGain]
    /\ whistlesEnabled = TRUE
    /\ whistleBusConnected = TRUE
    /\ maxConstantNoiseVolume = DefaultMaxConstantNoiseVolume
    /\ maxEtherNoiseVolume = DefaultMaxEtherNoiseVolume(revision)
    /\ playPending = {}
    /\ playRequests = [i \in StationIds |-> 0]
    /\ playFailed = [i \in StationIds |-> FALSE]
    /\ whistleOscillators = {}
    /\ oscStarts = [i \in StationIds |-> 0]
    /\ whistleGain = [i \in StationIds |-> 0]
    /\ whistleFreq = [i \in StationIds |-> 0]
    /\ mixRan = FALSE
    /\ selIn = <<>>
    /\ CabinetInit
    /\ noiseSources = [bed \in AllNoiseBeds |-> 0]
    /\ selOut = <<>>
    /\ calcIn = <<>>
    /\ calcOut = <<>>

(* setMaxConstantNoiseVolume: clamp to [0, 1], then the constant noise gain *)
(* is set to the new limit itself                                           *)
SetMaxConstantNoiseVolume ==
    \E volume \in ConfigVolumes :
        LET clamped == Max(0, Min(VScale, volume))
        IN  /\ maxConstantNoiseVolume' = clamped
            /\ noiseGain' = IF "constantNoise" \in noiseTracks
                            THEN [noiseGain EXCEPT !["constantNoise"] =
                                     clamped * VScale * VScale * MScale]
                            ELSE noiseGain
            /\ mixRan' = FALSE
            /\ UNCHANGED <<ctxState, isPoweredOn, dialPosition, uiDialPosition, masterVolume,
                           fadeTimers, pendingResume, isPlaying, stationGain,
                           whistleOscillators, oscStarts,
                           whistleGain, whistleFreq, startBtnVisible,
                           LoaderVars, revision, startupFadeDuration, whistlesEnabled,
                           whistleBusConnected,
                           maxEtherNoiseVolume, TrackVars,
                           CabinetVars, noiseSources, selIn, selOut, CalcVars>>

(* setMaxEtherNoiseVolume: clamp to [0, 1], then updateMixing when powered on *)
SetMaxEtherNoiseVolume ==
    \E volume \in ConfigVolumes :
        LET clamped == Max(0, Min(VScale, volume))
            a == [Self EXCEPT !.maxEtherNoiseVolume = clamped]
        IN  /\ maxEtherNoiseVolume' = clamped
            /\ Commit(IF isPoweredOn THEN updateMixing(a, a.dialPosition, isPoweredOn) ELSE a)
            /\ UNCHANGED <<ctxState, isPoweredOn, uiDialPosition, pendingResume,
                           startBtnVisible, LoaderVars, revision, startupFadeDuration,
                           whistlesEnabled,
                           whistleBusConnected, maxConstantNoiseVolume, TrackVars,
                           CabinetVars, noiseSources, selIn, selOut, CalcVars>>

ConfigNext ==
    \/ SetMaxConstantNoiseVolume
    \/ SetMaxEtherNoiseVolume
    \/ StartButtonClick
    \/ RotateDial
    \/ FadeTick
    \/ ResumeResolved
    \/ AdvanceTime

SpecConfig == ConfigInit /\ [][ConfigNext]_vars

---------------------------------------------------------------------------
(* Properties *)

PlayingIds == {i \in StationIds : isPlaying[i]}

(* Every gain of an existing track, bed or voice is 0 and no station plays *)
AllSilent ==
    /\ \A i \in stationTracks : stationGain[i] = 0 /\ ~isPlaying[i]
    /\ \A bed \in noiseTracks : noiseGain[bed] = 0
    /\ \A i \in whistleOscillators : whistleGain[i] = 0

(* C1: when togglePower() turns the power off, on return every station,     *)
(* noise and whistle gain is 0 and no station source is playing.            *)
C1_PowerOffSilencesAll ==
    [][(isPoweredOn /\ ~isPoweredOn') => AllSilent']_vars

(* C2: masterVolume is 0 from the power-off on, for as long as the power is *)
(* off, whatever the progress of the fade was.                              *)
C2_MasterVolumeZeroWhileOff ==
    ~isPoweredOn => masterVolume = 0

(* C3: within one fade-in masterVolume starts at 0, stays in [0,1], never   *)
(* decreases from one observation to the next, and is exactly 1 at the tick *)
(* that ends the fade, whatever dial changes and power toggles interleave.  *)
C3_FadeMonotone ==
    [][ /\ masterVolume' \in 0..MScale
        /\ Len(fadeTimers') > Len(fadeTimers) => masterVolume' = 0
        /\ Len(fadeTimers') < Len(fadeTimers) => masterVolume' = MScale
        /\ Len(fadeTimers') <= Len(fadeTimers) => masterVolume' >= masterVolume ]_vars

(* C4: at most one fade interval is alive at any time. *)
C4_AtMostOneFadeTimer ==
    Len(fadeTimers) <= 1

(* C5: the power-off cancels the fade timer: no interval started before it  *)
(* is left to tick.                                                         *)
C5_PowerOffCancelsFade ==
    [][(isPoweredOn /\ ~isPoweredOn') => fadeTimers' = <<>>]_vars

(* C6: masterVolume only ever moves to 0 (a fade starts) or to the progress *)
(* of the newest fade, never to the progress of an earlier, interrupted one. *)
C6_FollowsNewestFade ==
    [][ masterVolume' # masterVolume =>
          \/ masterVolume' = 0
          \/ /\ fadeTimers # <<>>
             /\ masterVolume' = FadeProgress(fadeTimers[Len(fadeTimers)],
                                             startupFadeDuration) ]_vars

(* C7: while the power is off no handler changes the gain of an existing    *)
(* station track, noise bed or whistle voice, and none starts a station.    *)
C7_NoAutomationWhileOff ==
    [][ (~isPoweredOn /\ ~isPoweredOn') =>
          /\ \A i \in stationTracks : stationGain'[i] = stationGain[i]
          /\ \A bed \in noiseTracks : noiseGain'[bed] = noiseGain[bed]
          /\ \A i \in whistleOscillators : whistleGain'[i] = whistleGain[i]
          /\ \A i \in StationIds : isPlaying'[i] => isPlaying[i] ]_vars

(* C8: a playing station source is ready, in the initial state and after    *)
(* every step, and isReady never goes back from true to false.              *)
C8_PlayingImpliesReady ==
    /\ \A i \in StationIds : isPlaying[i] => isReady[i]
    /\ [][ \A i \in StationIds :
              /\ isPlaying'[i] => isReady'[i]
              /\ isReady[i] => isReady'[i] ]_vars

(* updateMixing ran while a track that is not ready exists beside playing ones *)
C8_Witness ==
    /\ mixRan
    /\ \E i \in stationTracks : ~isReady[i] /\ ~isPlaying[i]
    /\ \E j \in stationTracks : isPlaying[j]

(* The ids the top-K selector picks at the stored dial position *)
SelectedIds ==
    LET topK == SelectTopK(StationVolumes(dialPosition))
    IN  {topK[k].id : k \in 1..Len(topK)}

TopKHolds ==
    /\ Cardinality(PlayingIds) <= TopK
    /\ \A i \in stationTracks : (isReady[i] /\ i \notin SelectedIds) => ~isPlaying[i]
    /\ \A i \in StationIds : isPlaying[i] => isReady[i]

C10_TopKSelector ==
    selOut # <<>> =>
        LET ids == {selOut[k].id : k \in 1..Len(selOut)}
            rest == (1..Len(selIn)) \ ids
        IN  /\ Len(selOut) <= TopK
            /\ Cardinality(ids) = Len(selOut)
            /\ ids \subseteq 1..Len(selIn)
            /\ \A k \in 1..Len(selOut) : selOut[k].key = selIn[selOut[k].id]
            /\ \A i \in ids, j \in rest : selIn[j] <= selIn[i]
            /\ \A i \in 1..Len(selIn), j \in ids : (i < j /\ selIn[i] = selIn[j]) => i \in ids
            /\ \A j \in 1..Len(selIn), mv \in 0..MScale :
                  j \notin ids => ScaledVolume("topK", selIn[j], mv, j \in ids) = 0
            /\ selIn = <<80, 30, 10, 5>> => ids = {1, 2, 3}

(* The selector has run on 0.8, 0.3, 0.1, 0.05 *)
C10_Witness ==
    /\ selIn = <<80, 30, 10, 5>>
    /\ Len(selOut) = TopK

---------------------------------------------------------------------------
C12_MixNoOpWhenNotRunning ==
    /\ [](ctxState # "running" =>
            \A d \in DialPositions, powered \in BOOLEAN :
                updateMixing(Self, d, powered) = Self)
    /\ [][(ctxState # "running" /\ uiDialPosition' # uiDialPosition) =>
            UNCHANGED <<dialPosition, masterVolume, isPlaying, stationGain, noiseGain,
                        whistleGain, whistleFreq, whistleOscillators, fadeTimers>>]_vars

(* The power is on, the context does not run, and a dial event moved the UI *)
(* dial away from the position the mix engine has stored                    *)
C12_Witness ==
    /\ isPoweredOn
    /\ ctxState # "running"
    /\ stationTracks # {}
    /\ uiDialPosition # dialPosition

(* C13: no entry point sets or schedules a gain or frequency value while    *)
(* the audio context is not running: a step taken with the context not      *)
(* running leaves every station, noise and whistle target as it was.        *)
C13_NoAutomationWhileNotRunning ==
    [][(ctxState # "running" /\ ctxState' # "running") =>
          UNCHANGED <<stationGain, noiseGain, whistleGain, whistleFreq>>]_vars

(* C14: masterVolume gates all audible output.  Checked where the claim     *)
(* bites, at the start of a fade: whenever the power is on, a mix update    *)
(* has just been applied and masterVolume is 0, the gain of every station   *)
(* track, every noise bed and every whistle voice is 0.                     *)
C14_MasterVolumeGatesOutput ==
    (isPoweredOn /\ mixRan /\ masterVolume = 0) =>
        /\ \A i \in stationTracks : stationGain[i] = 0
        /\ \A bed \in noiseTracks : noiseGain[bed] = 0
        /\ \A i \in whistleOscillators : whistleGain[i] = 0

(* C15: a power-on never jumps to full volume.  The mix update of the       *)
(* power-on itself is applied with masterVolume 0, and while the fade of    *)
(* the current power-on runs no mix update is applied with a masterVolume   *)
(* above that fade's progress, i.e. with one that comes from an earlier     *)
(* power-on session.                                                        *)
C15_NoInstantOn ==
    /\ [][(~isPoweredOn /\ isPoweredOn' /\ mixRan') => masterVolume' = 0]_vars
    /\ []((isPoweredOn /\ mixRan /\ fadeTimers # <<>>) =>
            masterVolume <= FadeProgress(fadeTimers[Len(fadeTimers)], startupFadeDuration))

---------------------------------------------------------------------------
(* The power/fade sequencer of a radio whose initializeAudio has completed.  *)
(* Scheduling: a live setInterval callback keeps firing, and the audio      *)
(* clock advances while the context runs.                                   *)
FadeNext ==
    \/ StartButtonClick
    \/ RotateDial
    \/ FadeTick
    \/ ResumeResolved
    \/ ResumeRejected
    \/ AdvanceTime
    \/ ContextInterrupted

(* Weak fairness of the interval callback, written out: a tick can change   *)
(* the state only while the context runs and an interval is alive.          *)
FadeTickFair ==
    \/ []<>(~(ctxState = "running" /\ fadeTimers # <<>>))
    \/ []<><<FadeTick>>_vars

SpecFade ==
    /\ ConfigInit
    /\ [][FadeNext]_vars
    /\ FadeTickFair
    /\ WF_vars(AdvanceTime)

(* C16: provided the power stays on and the audio context keeps running,    *)
(* masterVolume reaches 1 and every fade timer has stopped itself, for      *)
(* good; and the tick on which progress reaches 1 is the timer's last: a    *)
(* tick that leaves its timer alive has set a masterVolume below 1.         *)
C16_FadeCompletes ==
    /\ (<>[](isPoweredOn /\ ctxState = "running")) =>
            <>[](fadeTimers = <<>> /\ masterVolume = MScale)
    /\ [][(Len(fadeTimers') = Len(fadeTimers) /\ masterVolume' # masterVolume) =>
            masterVolume' < MScale]_vars

(* A fade has run to its end with the power on: masterVolume is 1, the mix  *)
(* was applied at it, and no timer is left                                  *)
C16_Witness ==
    /\ isPoweredOn
    /\ ctxState = "running"
    /\ mixRan
    /\ masterVolume = MScale
    /\ fadeTimers = <<>>
    /\ stationTracks # {}

---------------------------------------------------------------------------
(* C17: whenever the mix engine and the whistle synthesizer have run with   *)
(* the power on, on a dial event or on a fade tick, they ran at the dial    *)
(* position the UI holds, also when the dial was moved while the radio was  *)
(* off or the audio context was not yet running.                            *)
C17_MixUsesUiDialPosition ==
    (isPoweredOn /\ mixRan) => dialPosition = uiDialPosition

---------------------------------------------------------------------------
(* Scheduling of the loader: the 5 s timer of the race always fires in the end *)
SpecLoad == Spec /\ WF_vars(TrackTimeout)

(* C18: createStationTracks is never blocked by one station: while it runs  *)
(* only the track it is awaiting can be not ready, it always comes to its   *)
(* end, and from then on every created station track has isReady = true.    *)
C18_StationLoadingTerminates ==
    /\ [](\A i \in stationTracks : ~isReady[i] => (loadPhase = "station" /\ i = loadIdx))
    /\ (loadPhase = "station") ~> (loadPhase \in {"noise", "done"})

(* createStationTracks has ended with a track for every station of the catalog *)
C18_Witness ==
    /\ loadPhase \in {"noise", "done"}
    /\ stationTracks = StationIds
    /\ \A i \in StationIds : isReady[i]

---------------------------------------------------------------------------
(* createStreamingTrack.start, seen from the play() requests it issues, on  *)
(* a radio whose initializeAudio has completed and whose context runs.      *)

(* The tracks on which a mix that leaves the flags playingAfter called start() *)
StartedBy(playingAfter) == {i \in StationIds : ~isPlaying[i] /\ playingAfter[i]}

(* start(): one audioEl.play() request per started track; isPlaying has     *)
(* been set by the mix, whatever becomes of the request                      *)
PlayHook(a) ==
    LET started == StartedBy(a.isPlaying)
    IN  /\ playPending' = playPending \cup started
        /\ playRequests' = [i \in StationIds |-> IF i \in started THEN 1 ELSE playRequests[i]]
        /\ playFailed' = [i \in StationIds |-> IF i \in started THEN FALSE ELSE playFailed[i]]

TrackInit ==
    /\ ConfigInit
    /\ ctxState = "running"

(* The Start button's click handler turning the power on *)
TrackPowerOn ==
    /\ startBtnVisible
    /\ ~isPoweredOn
    /\ Len(fadeTimers) < MaxTimers
    /\ isPoweredOn' = TRUE
    /\ LET a == onDialPositionChange(StartAllTracks(Self), uiDialPosition, TRUE)
       IN  Commit(a) /\ PlayHook(a)
    /\ UNCHANGED <<ctxState, pendingResume, uiDialPosition, startBtnVisible, LoaderVars,
                   revision, startupFadeDuration, whistlesEnabled, whistleBusConnected,
                   maxConstantNoiseVolume, maxEtherNoiseVolume,
                   CabinetVars, noiseSources, selIn, selOut, CalcVars>>

(* A dial event *)
TrackRotateDial ==
    \E p \in DialPositions :
        /\ uiDialPosition' = p
        /\ LET a == onDialPositionChange(Self, p, isPoweredOn)
           IN  Commit(a) /\ PlayHook(a)
        /\ UNCHANGED <<ctxState, isPoweredOn, pendingResume, startBtnVisible, LoaderVars,
                       revision, startupFadeDuration, whistlesEnabled, whistleBusConnected,
                       maxConstantNoiseVolume, maxEtherNoiseVolume,
                       CabinetVars, noiseSources, selIn, selOut, CalcVars>>

(* The play() promise of start() resolves *)
PlayResolved ==
    \E i \in playPending :
        /\ playPending' = playPending \ {i}
        /\ mixRan' = FALSE
        /\ UNCHANGED <<playRequests, playFailed>>
        /\ AudioUnchanged
        /\ UNCHANGED <<startBtnVisible, LoaderVars, revision, startupFadeDuration,
                       whistlesEnabled,
                       whistleBusConnected, maxConstantNoiseVolume, maxEtherNoiseVolume,
                       CabinetVars, noiseSources, selIn, selOut, CalcVars>>

(* The play() promise of start() rejects: the catch handler.  For a track    *)
(* that is not marked ready it retries once, the 100 ms timer and its play() *)
(* request taken in this step; for a track marked ready it only logs.        *)
PlayRejected ==
    \E i \in playPending :
        /\ playPending' = playPending \ {i}
        /\ playFailed' = [playFailed EXCEPT ![i] = TRUE]
        /\ playRequests' = IF ~isReady[i]
                           THEN [playRequests EXCEPT ![i] = @ + 1]
                           ELSE playRequests
        /\ mixRan' = FALSE
        /\ AudioUnchanged
        /\ UNCHANGED <<startBtnVisible, LoaderVars, revision, startupFadeDuration,
                       whistlesEnabled,
                       whistleBusConnected, maxConstantNoiseVolume, maxEtherNoiseVolume,
                       CabinetVars, noiseSources, selIn, selOut, CalcVars>>

TrackNext ==
    \/ TrackPowerOn
    \/ TrackRotateDial
    \/ PlayResolved
    \/ PlayRejected

SpecTrack == TrackInit /\ [][TrackNext]_vars

(* C19: a source whose play request was rejected is marked not playing, so  *)
(* that the next mix in which it is selected calls start() on it again.     *)
C19_FailedStartNotPlaying ==
    \A i \in StationIds : playFailed[i] => ~isPlaying[i]

(* C20: once the failing start() of a source has settled, exactly two       *)
(* play requests have been issued for it: the first and one retry.          *)
C20_RetriedExactlyOnce ==
    /\ \A i \in StationIds : playRequests[i] <= 2
    /\ \A i \in StationIds :
          (playFailed[i] /\ i \notin playPending) => playRequests[i] = 2

---------------------------------------------------------------------------
(* C21: with no audio context (initialization failed) the core is inert:    *)
(* togglePower, onDialPositionChange and updateMixing leave the power       *)
(* state, masterVolume, the stored dial position, every gain and flag and   *)
(* every timer as they were.                                                *)
C21_InertWithoutContext ==
    [][ctxState = "none" =>
          UNCHANGED <<isPoweredOn, masterVolume, dialPosition, isPlaying, stationGain,
                      noiseGain, whistleOscillators, whistleGain, whistleFreq,
                      fadeTimers, pendingResume>>]_vars

---------------------------------------------------------------------------
(* updateWhistlesForDial on its own: any station list the catalog parser    *)
(* can deliver (parseFloat, no range check), any dial position              *)

WhistleStrengths == {-50, 0, 80, 400}
WhistleDials == (38..49) \cup {DefaultDial}

StationLists ==
    {[i \in 1..n |-> [position |-> Catalog[i].position, strength |-> str[i],
                      sigma |-> Catalog[i].sigma]] :
        n \in 1..NumStations, str \in [StationIds -> WhistleStrengths]}

WhistleInit ==
    /\ InitCore
    /\ ctxState = "running"
    /\ selIn = <<>>
    /\ CabinetInit
    /\ noiseSources = [bed \in AllNoiseBeds |-> 0]
    /\ selOut = <<>>
    /\ calcIn \in [stations : StationLists, dial : WhistleDials]
    /\ calcOut = <<>>

UpdateWhistlesForDial ==
    /\ calcOut = <<>>
    /\ whistlesEnabled /\ whistleBus
    /\ calcOut' = WhistleTargetsOf(calcIn.stations, calcIn.dial)
    /\ UNCHANGED <<ctxState, isPoweredOn, dialPosition, uiDialPosition, masterVolume,
                   fadeTimers, pendingResume, isPlaying, stationGain, noiseGain,
                   whistleOscillators, oscStarts,
                   whistleGain, whistleFreq, mixRan, startBtnVisible,
                   LoaderVars, revision, startupFadeDuration, whistlesEnabled,
                   whistleBusConnected,
                   maxConstantNoiseVolume, maxEtherNoiseVolume, TrackVars,
                   CabinetVars, noiseSources, selIn, selOut,
                   calcIn>>

SpecWhistle == WhistleInit /\ [][UpdateWhistlesForDial]_vars

(* C22: every station within the deadband of the dial position gets the     *)
(* whistle targets frequency 0 and gain 0 from updateWhistlesForDial, kept  *)
(* among the selected whistles or not.                                      *)
C22_DeadbandSilent ==
    calcOut # <<>> =>
        \A i \in 1..Len(calcIn.stations) :
            Abs(calcIn.dial - calcIn.stations[i].position) < whistleCenterDeadband =>
                /\ calcOut[i].frequency = 0
                /\ calcOut[i].gain = 0

InDeadband(i) ==
    /\ i <= Len(calcIn.stations)
    /\ Abs(calcIn.dial - calcIn.stations[i].position) < whistleCenterDeadband

C22_Witness ==
    /\ calcOut # <<>>
    /\ InDeadband(3)
    /\ calcIn.stations[3].strength > 0
    /\ ~calcOut[3].selected
    /\ \E j \in 1..Len(calcOut) : calcOut[j].gain > 0

(* The sum of the gains in field f of the kept entries i..Len(out) *)
RECURSIVE KeptSum(_, _)
KeptSum(out, i) ==
    IF i > Len(out) THEN 0
    ELSE (IF out[i].selected THEN out[i].gain ELSE 0) + KeptSum(out, i + 1)

(* The gains of the kept whistles before scaleFactor is applied *)
UnscaledKept(out) ==
    [i \in 1..Len(out) |->
        [selected |-> out[i].selected,
         gain |-> StationWhistleOf(calcIn.stations, i, calcIn.dial).key]]

(* C23: the gain targets updateWhistlesForDial applies to the kept whistles *)
(* sum to at most whistleGlobalCeiling for any positions and strengths;     *)
(* when the unscaled sum is above the ceiling every kept gain is scaled by  *)
(* the one factor ceiling / sum, so the scaled sum is the ceiling (up to    *)
(* one unit of rounding per whistle), and otherwise no gain is scaled.      *)
C23_WhistleCeiling ==
    calcOut # <<>> =>
        LET raw == UnscaledKept(calcOut)
            rawSum == KeptSum(raw, 1)
            kept == {i \in 1..Len(calcOut) : calcOut[i].selected}
        IN  /\ KeptSum(calcOut, 1) <= whistleGlobalCeiling
            /\ Cardinality(kept) <= whistleMaxSimultaneous
            /\ rawSum > whistleGlobalCeiling =>
                  /\ KeptSum(calcOut, 1) > whistleGlobalCeiling - Cardinality(kept)
                  /\ \A i \in kept :
                        calcOut[i].gain = (raw[i].gain * whistleGlobalCeiling) \div rawSum
            /\ rawSum <= whistleGlobalCeiling =>
                  \A i \in kept : calcOut[i].gain = raw[i].gain

C23_Witness ==
    /\ calcOut # <<>>
    /\ KeptSum(UnscaledKept(calcOut), 1) > whistleGlobalCeiling
    /\ Cardinality({i \in 1..Len(calcOut) : calcOut[i].selected /\ calcOut[i].gain > 0}) = 3
    /\ KeptSum(calcOut, 1) <= whistleGlobalCeiling

(* C24: there is one whistle voice per station id: however often the        *)
(* voice-creation path runs for an id, over repeated power-ons, the id has  *)
(* one oscillator and gain pair, created and started once, and an id        *)
(* without a voice has had none started.                                    *)
C24_OneVoicePerStation ==
    \A i \in StationIds : oscStarts[i] = IF i \in whistleOscillators THEN 1 ELSE 0

C24_Witness ==
    /\ isPoweredOn
    /\ Len(fadeTimers) = 2
    /\ whistleOscillators = StationIds
    /\ \A i \in StationIds : oscStarts[i] = 1

---------------------------------------------------------------------------
(* calculateStationVolume on its own: any station record the catalog parser *)
(* can deliver with a positive sigma, any dial position                     *)

VolumeStrengths == {-50, 0, 60, 100, 150}
VolumeSigmas == {2, 3}
VolumeDials == 36..52
VolumePosition == Catalog[3].position

VolumeInit ==
    /\ InitCore
    /\ ctxState = "running"
    /\ selIn = <<>>
    /\ CabinetInit
    /\ noiseSources = [bed \in AllNoiseBeds |-> 0]
    /\ selOut = <<>>
    /\ calcIn \in [station : [position : {VolumePosition}, strength : VolumeStrengths,
                              sigma : VolumeSigmas],
                   dial : VolumeDials]
    /\ calcOut = <<>>

CalculateStationVolume ==
    /\ calcOut = <<>>
    /\ calcOut' = <<calculateStationVolume(calcIn.station, calcIn.dial)>>
    /\ UNCHANGED <<ctxState, isPoweredOn, dialPosition, uiDialPosition, masterVolume,
                   fadeTimers, pendingResume, isPlaying, stationGain, noiseGain,
                   whistleOscillators, oscStarts, whistleGain, whistleFreq, mixRan,
                   startBtnVisible, LoaderVars, revision, startupFadeDuration,
                   whistlesEnabled,
                   whistleBusConnected, maxConstantNoiseVolume, maxEtherNoiseVolume,
                   TrackVars, CabinetVars, noiseSources, selIn, selOut, calcIn>>

SpecVolume == VolumeInit /\ [][CalculateStationVolume]_vars

(* C25: for a station of strength in [0, 1] and sigma > 0 the volume v at   *)
(* any dial position has 0 <= v <= strength <= 1, and the volume at a dial  *)
(* position at least as far from the station is never larger.               *)
C25_VolumeBoundedAndDecaying ==
    (/\ calcOut # <<>>
     /\ calcIn.station.strength \in 0..VScale
     /\ calcIn.station.sigma > 0) =>
        LET s == calcIn.station
            v == calcOut[1]
        IN  /\ 0 <= v /\ v <= s.strength /\ s.strength <= VScale
            /\ \A d2 \in VolumeDials :
                  Abs(d2 - s.position) >= Abs(calcIn.dial - s.position) =>
                      calculateStationVolume(s, d2) <= v

C25_Witness ==
    /\ calcOut # <<>>
    /\ calcIn.station.strength = 60
    /\ calcIn.station.sigma = 2
    /\ Abs(calcIn.dial - calcIn.station.position) = 2
    /\ calcOut[1] > 0
    /\ calcOut[1] < 60
    /\ calculateStationVolume(calcIn.station, calcIn.dial + 1) < calcOut[1]

(* C26: at the station's own dial position the volume is the station's      *)
(* strength, for every station record the catalog parser can deliver.       *)
C26_PeakIsStrength ==
    (calcOut # <<>> /\ calcIn.dial = calcIn.station.position) =>
        calcOut[1] = calcIn.station.strength

(* C27: the Start button is visible only once initializeAudio has finished  *)
(* (stations and noise tracks loaded or timed out, or the initialization    *)
(* failed), so togglePower cannot be reached while it is still loading.     *)
C27_StartButtonAfterInit ==
    startBtnVisible => loadPhase \in {"done", "failed"}

---------------------------------------------------------------------------
(* The stations updateMixing gives a gain of their own at the stored dial   *)
(* position: every station with a track, or the top K of them in part_000   *)
MixSelected ==
    IF revision = "current" THEN stationTracks ELSE stationTracks \cap SelectedIds

(* C28: after every updateMixing that ran, the gain of each selected        *)
(* station track is calculateStationVolume(station, dial) * masterVolume,   *)
(* the value assigned in that call, so several overlapping stations can     *)
(* have a nonzero gain at one dial position.                                *)
C28_StationGainIsVolumeTimesMaster ==
    mixRan =>
        \A i \in MixSelected :
            stationGain[i] =
                calculateStationVolume(stations[i], dialPosition) * masterVolume
                    * VScale * VScale

C28_Witness ==
    /\ mixRan
    /\ masterVolume > 0
    /\ masterVolume < MScale
    /\ Cardinality({i \in MixSelected : stationGain[i] > 0}) >= 3
    /\ \E i, j \in MixSelected : stationGain[i] # stationGain[j]

(* The ether beds that have a track, and the largest station volume at the  *)
(* stored dial position (0 when no station has a track)                     *)
EtherBeds == noiseTracks \ {"constantNoise"}
MaxStationVolume == MaxKey(StationVolumes(dialPosition))

(* The share of etherVolume a bed gets, in 1/VScale: all of it for the one  *)
(* bed of radio-audio.js, etherBaselineVolume and etherAMStaticVolume for   *)
(* the two beds of part_000                                                 *)
EtherBlend(bed) ==
    IF bed = "etherNoise" THEN VScale
    ELSE IF bed = "etherNoiseBaseline" THEN etherBaselineVolume
    ELSE etherAMStaticVolume

(* C29 as stated: after every updateMixing that ran, the ether-noise gain   *)
(* is maxEtherNoiseVolume * (1 - m) * masterVolume, m the largest selected  *)
(* station volume.                                                          *)
C29_EtherGainIsFormula ==
    mixRan =>
        \A bed \in EtherBeds :
            noiseGain[bed] =
                maxEtherNoiseVolume * (VScale - MaxStationVolume) * masterVolume * VScale

(* C29, amended: after every updateMixing that ran, each ether bed's gain   *)
(* is maxEtherNoiseVolume * (1 - m) * masterVolume times the bed's share    *)
(* (1 for the single bed of radio-audio.js; etherBaselineVolume and         *)
(* etherAMStaticVolume for the two beds of part_000); it lies in            *)
(* [0, maxEtherNoiseVolume], is 0 for m = 1, and is never larger for a      *)
(* larger m.                                                                *)
C29_EtherGainIsFormulaTimesBlend ==
    mixRan =>
        \A bed \in EtherBeds :
            /\ noiseGain[bed] =
                  maxEtherNoiseVolume * (VScale - MaxStationVolume) * masterVolume
                      * EtherBlend(bed)
            /\ noiseGain[bed] >= 0
            /\ noiseGain[bed] <= maxEtherNoiseVolume * VScale * VScale * MScale
            /\ EtherBedGain(revision, bed,
                            EtherVolume(maxEtherNoiseVolume, VScale, masterVolume)) = 0
            /\ \A m2 \in MaxStationVolume..VScale :
                  EtherBedGain(revision, bed,
                               EtherVolume(maxEtherNoiseVolume, m2, masterVolume))
                      <= noiseGain[bed]

C29_Witness ==
    /\ mixRan
    /\ revision = "topK"
    /\ masterVolume > 0
    /\ maxEtherNoiseVolume = 50
    /\ MaxStationVolume > 0
    /\ noiseGain["etherNoiseBaseline"] > 0
    /\ noiseGain["etherNoiseAMStatic"] > noiseGain["etherNoiseBaseline"]

(* C30: the constant noise bed is scaled by the master volume only: after   *)
(* every updateMixing that ran its gain is maxConstantNoiseVolume *         *)
(* masterVolume, and an updateMixing for another dial position, with the    *)
(* same master volume and limit, leaves that gain as it was.                *)
C30_ConstantNoiseFollowsMasterOnly ==
    /\ [](mixRan /\ "constantNoise" \in noiseTracks =>
             noiseGain["constantNoise"] =
                 maxConstantNoiseVolume * masterVolume * VScale * VScale)
    /\ [][(/\ mixRan /\ mixRan'
           /\ "constantNoise" \in noiseTracks
           /\ dialPosition' # dialPosition
           /\ masterVolume' = masterVolume
           /\ maxConstantNoiseVolume' = maxConstantNoiseVolume) =>
              noiseGain'["constantNoise"] = noiseGain["constantNoise"]]_vars

C30_Witness ==
    /\ mixRan
    /\ "constantNoise" \in noiseTracks
    /\ dialPosition # DefaultDial
    /\ MaxStationVolume > 0
    /\ masterVolume > 0
    /\ masterVolume < MScale
    /\ maxConstantNoiseVolume = 50
    /\ noiseGain["constantNoise"] = 50 * masterVolume * VScale * VScale

---------------------------------------------------------------------------
(* C31: updateWhistlesForDial keeps the whistleMaxSimultaneous stations of  *)
(* highest computed whistle gain: at most that many voices get a nonzero    *)
(* gain target, no station that is not kept has a higher computed gain     *)
(* than a kept one, and every voice that is not kept is targeted to         *)
(* frequency 0 and gain 0.                                                  *)
C31_KeepsLoudestWhistles ==
    calcOut # <<>> =>
        LET raw == UnscaledKept(calcOut)
            all == 1..Len(calcOut)
            kept == {i \in all : calcOut[i].selected}
        IN  /\ Cardinality(kept) = Min(Len(calcOut), whistleMaxSimultaneous)
            /\ Cardinality({i \in all : calcOut[i].gain # 0}) <= whistleMaxSimultaneous
            /\ \A i \in kept, j \in all \ kept : raw[j].gain <= raw[i].gain
            /\ \A j \in all \ kept : calcOut[j].frequency = 0 /\ calcOut[j].gain = 0

C31_Witness ==
    /\ calcOut # <<>>
    /\ Len(calcOut) = 4
    /\ \A i \in 1..4 : UnscaledKept(calcOut)[i].gain > 0
    /\ Cardinality({i \in 1..4 : calcOut[i].gain > 0}) = 3
    /\ \E j \in 1..4 : ~calcOut[j].selected /\ calcOut[j].gain = 0 /\ calcOut[j].frequency = 0

(* The distance of station i of the input list from the input dial position *)
WhistleOffset(i) == Abs(calcIn.dial - calcIn.stations[i].position)

(* C32: outside the deadband the target frequency of a kept whistle is      *)
(* min(offset * whistleScaleHzPerUnit, whistleMaxSafeFreq) and every        *)
(* frequency applied lies in [0, 22050]; gainReduction is 1 when the raw    *)
(* frequency is at most the ceiling and sqrt(ceiling / raw) < 1 above it    *)
(* (offset 5: 5000 Hz, factor 1; offset 9: 8000 Hz, factor sqrt(8/9)).      *)
C32_WhistleFrequencyAndReduction ==
    calcOut # <<>> =>
        \A i \in 1..Len(calcOut) :
            LET offset == WhistleOffset(i)
                raw == offset * whistleScaleHzPerUnit
                factor == GainReduction(raw)
            IN  /\ calcOut[i].frequency \in 0..MaxOscFreq
                /\ (calcOut[i].selected /\ offset >= whistleCenterDeadband) =>
                      calcOut[i].frequency = Min(raw, whistleMaxSafeFreq)
                /\ raw <= whistleMaxSafeFreq => factor = 1000
                /\ raw > whistleMaxSafeFreq =>
                      /\ factor < 1000
                      /\ factor * factor <= 1000 * ((1000 * whistleMaxSafeFreq) \div raw)
                      /\ (factor + 1) * (factor + 1)
                            > 1000 * ((1000 * whistleMaxSafeFreq) \div raw)
                /\ (calcOut[i].selected /\ offset = 5) =>
                      calcOut[i].frequency = 5000 /\ factor = 1000
                /\ (calcOut[i].selected /\ offset = 9) =>
                      calcOut[i].frequency = 8000 /\ factor = 942

C32_Witness ==
    /\ calcOut # <<>>
    /\ Len(calcOut) = 3
    /\ WhistleOffset(1) = 9 /\ calcOut[1].selected /\ calcOut[1].frequency = 8000
    /\ WhistleOffset(3) = 5 /\ calcOut[3].selected /\ calcOut[3].frequency = 5000
    /\ calcOut[3].gain > 0

---------------------------------------------------------------------------
(* The whistle subsystem switched off and on again on a loaded radio        *)

(* The voices silenced but kept: the per-voice silence of                   *)
(* stopWhistleOscillators in place of the teardown                          *)
teardown_MuteOnly ==
    /\ whistleGain' = [i \in StationIds |-> 0]
    /\ UNCHANGED <<whistleOscillators, oscStarts, whistleFreq, whistleBusConnected>>

(* teardown: every oscillator is stopped and disconnected, the map is       *)
(* cleared, and the whistle bus and the limiter are disconnected; the bus   *)
(* itself is kept                                                           *)
teardown ==
    /\ whistleOscillators' = {}
    /\ oscStarts' = [i \in StationIds |-> 0]
    /\ whistleGain' = [i \in StationIds |-> 0]
    /\ whistleFreq' = [i \in StationIds |-> 0]
    /\ whistleBusConnected' = IF whistleBus THEN FALSE ELSE whistleBusConnected

(* setWhistlesEnabled(enabled) *)
SetWhistlesEnabled ==
    \E enabled \in BOOLEAN :
        /\ whistlesEnabled' = enabled
        /\ IF ~enabled THEN teardown
           ELSE UNCHANGED <<whistleOscillators, oscStarts, whistleGain, whistleFreq,
                            whistleBusConnected>>
        /\ mixRan' = FALSE
        /\ UNCHANGED <<ctxState, isPoweredOn, dialPosition, uiDialPosition, masterVolume,
                       fadeTimers, pendingResume, isPlaying, stationGain, noiseGain,
                       startBtnVisible, LoaderVars, revision, startupFadeDuration,
                       maxConstantNoiseVolume, maxEtherNoiseVolume, TrackVars,
                       CabinetVars, noiseSources, selIn, selOut, CalcVars>>

VoicesNext ==
    \/ SetWhistlesEnabled
    \/ StartButtonClick
    \/ RotateDial
    \/ FadeTick
    \/ ResumeResolved
    \/ AdvanceTime

SpecVoices == ConfigInit /\ [][VoicesNext]_vars

(* The stations updateWhistlesForDial applied a whistle to in the last      *)
(* handler: all of this.stations, when the mix ran with the power on and    *)
(* the whistles enabled                                                     *)
WhistlesApplied ==
    IF mixRan /\ isPoweredOn /\ whistlesEnabled /\ whistleBus
    THEN {i \in StationIds : i <= Len(stations)}
    ELSE {}

(* C33: whistle voices are created on first reference: once whistle         *)
(* automation has been applied for a station id, that id has a voice, with  *)
(* its oscillator started, also when it had none before the call.           *)
C33_AutomationCreatesVoice ==
    \A i \in WhistlesApplied : i \in whistleOscillators /\ oscStarts[i] = 1


(* C34: setWhistlesEnabled(false) releases all voices: on the step that     *)
(* disables the whistles every oscillator is stopped and the voice map is   *)
(* emptied, and while they are disabled no handler creates a voice or       *)
(* applies a whistle target.                                                *)
C34_DisableReleasesVoices ==
    /\ [](~whistlesEnabled =>
             /\ whistleOscillators = {}
             /\ \A i \in StationIds :
                   oscStarts[i] = 0 /\ whistleGain[i] = 0 /\ whistleFreq[i] = 0)
    /\ [][~whistlesEnabled' =>
             /\ whistleOscillators' = {}
             /\ \A i \in StationIds : oscStarts'[i] = 0]_vars

C34_Witness ==
    /\ ~whistlesEnabled
    /\ ~whistleBusConnected
    /\ isPoweredOn
    /\ mixRan
    /\ masterVolume > 0
    /\ dialPosition = 44
    /\ whistleOscillators = {}


(* C39: whenever the whistles are enabled and a whistle voice exists, its   *)
(* output reaches the master bus through the whistle bus and the limiter,   *)
(* also for the voices re-created at a power-on after the whistles were     *)
(* disabled and enabled again.                                              *)
C39_VoicesReachMasterBus ==
    (whistlesEnabled /\ whistleOscillators # {}) => whistleBusConnected

---------------------------------------------------------------------------
(* RadioUI: rotateDial driven by key, mouse and touch events                *)

DialMin == 0
DialMax == 180

(* The changes of position the events ask for: key steps and drags, some of *)
(* them past either end of the scale                                        *)
DialDegrees == {-100, -40, 40, 100}

(* rotateDial with the range check left out *)
rotateDial_Unclamped(position, degrees) == position + degrees

(* rotateDial: this.dialPosition += degrees, then kept within 0..180 *)
rotateDial(position, degrees) ==
    LET moved == position + degrees
    IN  IF moved < DialMin THEN DialMin
        ELSE IF moved > DialMax THEN DialMax
        ELSE moved

DialInit ==
    /\ ConfigInit
    /\ ctxState = "running"

(* An event handler calling rotateDial(degrees): the position is stored,    *)
(* then onDialChange hands it to onDialPositionChange; calcOut records the  *)
(* position handed over                                                     *)
RotateDialBy ==
    \E degrees \in DialDegrees :
        LET p == rotateDial(uiDialPosition, degrees)
        IN  /\ uiDialPosition' = p
            /\ calcOut' = <<p>>
            /\ Commit(onDialPositionChange(Self, p, isPoweredOn))
            /\ UNCHANGED <<ctxState, isPoweredOn, pendingResume, startBtnVisible,
                           LoaderVars, revision, startupFadeDuration, whistlesEnabled,
                           whistleBusConnected, maxConstantNoiseVolume,
                           maxEtherNoiseVolume, TrackVars,
                           CabinetVars, noiseSources, selIn, selOut, calcIn>>

DialNext ==
    \/ RotateDialBy
    \/ StartButtonClick

SpecDial == DialInit /\ [][DialNext]_vars

(* C35: every dial position the UI hands to onDialPositionChange lies in    *)
(* [0, 180] and is the position getDialPosition() returns at that moment;   *)
(* a mix that runs for it stores that same position.                        *)
C35_DeliveredDialPosition ==
    calcOut # <<>> =>
        /\ calcOut[1] \in DialMin..DialMax
        /\ calcOut[1] = uiDialPosition
        /\ (isPoweredOn /\ mixRan) => dialPosition = calcOut[1]

C35_Witness ==
    /\ calcOut = <<DialMax>>
    /\ isPoweredOn
    /\ mixRan
    /\ dialPosition = DialMax

---------------------------------------------------------------------------
(* The debug panel's effect switches on a loaded radio                      *)

(* update<Effect>Enabled(enabled): the switch is stored, then reconnect()   *)
ToggleEffect ==
    \E effect \in Effects, enabled \in BOOLEAN :
        /\ ctxState # "none"
        /\ cabinetEnabled' = [cabinetEnabled EXCEPT ![effect] = enabled]
        /\ cabinetEdges' = reconnect(cabinetEdges, cabinetEnabled')
        /\ mixRan' = FALSE
        /\ AudioUnchanged
        /\ UNCHANGED <<startBtnVisible, LoaderVars, revision, startupFadeDuration,
                       whistlesEnabled, whistleBusConnected, maxConstantNoiseVolume,
                       maxEtherNoiseVolume, TrackVars, noiseSources, selIn, selOut,
                       CalcVars>>

SpecCabinet == ConfigInit /\ [][ToggleEffect]_vars

(* The nodes a signal can reach from the given nodes over the connections *)
RECURSIVE ReachFrom(_, _)
ReachFrom(nodes, edges) ==
    LET next == nodes \cup {e[2] : e \in {d \in edges : d[1] \in nodes}}
    IN  IF next = nodes THEN nodes ELSE ReachFrom(next, edges)

(* The connections that lie on a signal path from the master bus to the     *)
(* destination                                                              *)
SignalPaths(edges) ==
    LET fromBus == ReachFrom({"masterBus"}, edges)
        toDest == ReachFrom({"destination"}, {<<e[2], e[1]>> : e \in edges})
    IN  {e \in edges : e[1] \in fromBus /\ e[2] \in toDest}

(* C36: after any sequence of effect toggles the signal paths from the      *)
(* master bus to the destination are those of the chain of the enabled      *)
(* effects in their fixed order, and no others.                             *)
C36_GraphMatchesEnabledEffects ==
    SignalPaths(cabinetEdges) = connect({}, cabinetEnabled)

---------------------------------------------------------------------------
(* The buffer sources of the noise beds over power toggles                  *)

MaxSources == 3

(* track.start() of createAudioTrack for every noise track: a new buffer    *)
(* source is created and started and takes the place of this.source         *)
StartNoiseSources ==
    noiseSources' = [bed \in AllNoiseBeds |->
                        IF bed \in noiseTracks THEN noiseSources[bed] + 1
                        ELSE noiseSources[bed]]

NoiseInit ==
    /\ ConfigInit
    /\ ctxState = "running"

(* The Start button's click handler: _startTracksAfterResume starts every   *)
(* noise track at power-on; stopAllTracks sets the noise gains to 0 and     *)
(* calls no track.stop() for a noise track                                  *)
NoisePowerClick ==
    /\ startBtnVisible
    /\ ctxState = "running"
    /\ IF ~isPoweredOn
       THEN /\ Len(fadeTimers) < MaxTimers
            /\ \A bed \in noiseTracks : noiseSources[bed] < MaxSources
            /\ isPoweredOn' = TRUE
            /\ Commit(onDialPositionChange(StartAllTracks(Self), uiDialPosition, TRUE))
            /\ StartNoiseSources
       ELSE /\ isPoweredOn' = FALSE
            /\ Commit(stopAllTracks(Self, FALSE))
            /\ UNCHANGED noiseSources
    /\ UNCHANGED <<ctxState, pendingResume, uiDialPosition, startBtnVisible, LoaderVars,
                   revision, startupFadeDuration, whistlesEnabled, whistleBusConnected,
                   maxConstantNoiseVolume, maxEtherNoiseVolume, TrackVars, CabinetVars,
                   selIn, selOut, CalcVars>>

NoiseNext ==
    \/ NoisePowerClick
    \/ RotateDial
    \/ FadeTick
    \/ AdvanceTime

SpecNoise == NoiseInit /\ [][NoiseNext]_vars

(* C37: each noise bed has at most one active buffer source: a noise track  *)
(* started again at a power-on leaves no earlier looping source of the      *)
(* same track running next to the new one.                                  *)
C37_OneSourcePerNoiseBed ==
    \A bed \in AllNoiseBeds : noiseSources[bed] <= 1

---------------------------------------------------------------------------
(* The fade duration changed while a fade-in runs                           *)

MinFadeTenths == 1
MaxFadeTenths == 50
MaxFadeSeconds == MaxFadeTenths \div 10

(* The durations requested, in tenths of a second *)
DurationInputs == {10, 20, 40, 70}

(* setStartupFadeDuration's clamp, in tenths of a second *)
setStartupFadeDuration(durationTenths) ==
    Max(MinFadeTenths, Min(MaxFadeTenths, durationTenths))

(* setStartupFadeDuration(durationSeconds): the clamped value is stored;    *)
(* the interval callback of a running fade reads it at its next tick        *)
SetStartupFadeDuration ==
    \E d \in DurationInputs :
        /\ setStartupFadeDuration(d) % 10 = 0
        /\ startupFadeDuration' = setStartupFadeDuration(d) \div 10
        /\ startupFadeDuration' # startupFadeDuration
        /\ Commit(Self)
        /\ UNCHANGED <<ctxState, isPoweredOn, uiDialPosition, pendingResume,
                       startBtnVisible, LoaderVars, revision, whistlesEnabled,
                       whistleBusConnected, maxConstantNoiseVolume,
                       maxEtherNoiseVolume, TrackVars, CabinetVars, noiseSources,
                       selIn, selOut, CalcVars>>

(* The audio clock advances, counted up to the longest fade duration *)
AdvanceFadeClock ==
    /\ ctxState = "running"
    /\ \E i \in 1..Len(fadeTimers) : fadeTimers[i] < MaxFadeSeconds
    /\ fadeTimers' = [i \in 1..Len(fadeTimers) |->
                          Min(fadeTimers[i] + 1, MaxFadeSeconds)]
    /\ UNCHANGED <<ctxState, isPoweredOn, dialPosition, uiDialPosition, masterVolume,
                   pendingResume, isPlaying, stationGain, noiseGain,
                   whistleOscillators, oscStarts, whistleGain, whistleFreq,
                   startBtnVisible, mixRan, LoaderVars, ConfigVars>>

DurationInit ==
    /\ ConfigInit
    /\ ctxState = "running"

DurationNext ==
    \/ SetStartupFadeDuration
    \/ StartButtonClick
    \/ FadeTick
    \/ AdvanceFadeClock

SpecDuration == DurationInit /\ [][DurationNext]_vars

(* C38: while a single fade-in is in progress, whatever the fade duration   *)
(* is changed to, no step makes masterVolume decrease, and the fade's       *)
(* interval ends only with masterVolume at exactly 1.                       *)
C38_MonotoneUnderDurationChange ==
    [][ (Len(fadeTimers) = 1 /\ Len(fadeTimers') <= 1) =>
            /\ masterVolume' >= masterVolume
            /\ fadeTimers' = <<>> => masterVolume' = MScale ]_vars

=============================================================================
